---- MODULE Spec2Model ----
(***************************************************************************)
(* Model of sdks/go/pkg/beam/io/synthetic/source.go: the synthetic source  *)
(* (a splittable DoFn over an offset-range restriction) and the builder of *)
(* its SourceConfig.                                                        *)
(*                                                                         *)
(* Three specifications share the module:                                  *)
(*   SpecBuilder  the SourceConfigBuilder: setters, Build, BuildFromJSON;  *)
(*   SpecSplit    SplitRestriction as a pure function of (config, range);   *)
(*   Spec         one run of the source: initial splits, the claim loops   *)
(*                of ProcessElement, and dynamic splits by the runner.     *)
(*                                                                         *)
(* A float64 field (HotKeyFraction, a split fraction, a random sample) is  *)
(* an integer number of 1/FracDen units: the value f stands for f/FracDen. *)
(***************************************************************************)
EXTENDS Integers, Sequences, FiniteSets, TLC

VARIABLES
    b,          \* SourceConfigBuilder.cfg: the one builder object
    res,        \* what the last call on the builder returned (or its panic)
    splitIn,    \* SpecSplit: the (config, restriction) SplitRestriction is given
    splitOut,   \* SpecSplit: what SplitRestriction returned for splitIn
    config,     \* Spec: the SourceConfig element the source processes
    float64Of,  \* Spec: generator.Float64() after generator.Seed(i), by index i
    units       \* Spec: the units of work, each a tracker and a ProcessElement call

vars == <<b, res, splitIn, splitOut, config, float64Of, units>>

----------------------------------------------------------------------------
(* Bounds of the model.                                                    *)

\* Resolution of the float64 grid: the value f stands for f / FracDen.
FracDen == 2
\* Largest integer a setter or a JSON document is given.
MaxVal == 1
\* Largest number of places a JSON document differs from the complete valid one.
MaxDiff == 2

\* Largest NumElements of SpecSplit (InitialSplits goes two beyond it).
MaxSplitN == 9
\* Largest NumElements of a run.
MaxN == 3
\* Largest NumHotKeys of a run.
MaxHotKeys == 1
\* Largest InitialSplits and number of units of work (initial, residual) of a run.
MaxUnits == 2

\* Values a caller gives the int setters (0 stands for every val <= 0 of a
\* field that must be >= 1; NumHotKeys, which may be 0, is also given -1),
\* and the float64 setter (from below 0 to above 1).
IntVals == 0 .. MaxVal
HotKeyVals == -1 .. MaxVal
FracVals == -1 .. (FracDen + 1)

----------------------------------------------------------------------------
(* SourceConfig and its builder.                                           *)

\* The fields of SourceConfig, in declaration order, and their JSON keys.
Fields == <<"NumElements", "InitialSplits", "KeySize", "ValueSize",
            "NumHotKeys", "HotKeyFraction">>

FieldSet == {Fields[k] : k \in 1 .. Len(Fields)}

JSONKey(f) ==
    CASE f = "NumElements"    -> "num_records"
      [] f = "InitialSplits"  -> "initial_splits"
      [] f = "KeySize"        -> "key_size"
      [] f = "ValueSize"      -> "value_size"
      [] f = "NumHotKeys"     -> "num_hot_keys"
      [] f = "HotKeyFraction" -> "hot_key_fraction"

KnownKeys == {JSONKey(f) : f \in FieldSet}

DefaultSourceConfig ==
    [NumElements    |-> 1,
     InitialSplits  |-> 1,
     KeySize        |-> 8,
     ValueSize      |-> 8,
     NumHotKeys     |-> 0,
     HotKeyFraction |-> 0]

RECURSIVE GCD(_, _)
GCD(x, y) == IF y = 0 THEN x ELSE GCD(y, x % y)

Abs(x) == IF x < 0 THEN -x ELSE x

\* fmt's %v of an int64 and of a float64, as the number the text denotes
\* (numerator, denominator in lowest terms): int64 1 and float64 1.0 both
\* print "1", float64 1.5 prints "1.5".
FormatInt(v) == <<v, 1>>

FormatFloat(f) ==
    LET g == GCD(Abs(f), FracDen) IN <<f \div g, FracDen \div g>>

FormatField(c, f) ==
    IF f = "HotKeyFraction" THEN FormatFloat(c[f]) ELSE FormatInt(c[f])

Panic(field, got) == [kind |-> "panic", field |-> field, got |-> got]

\* Build with the ValueSize check off by one (< 0 for <= 0).
BuildLaxValueSize(c) ==
    IF c.InitialSplits <= 0
      THEN Panic("InitialSplits", FormatInt(c.InitialSplits))
    ELSE IF c.NumElements <= 0
      THEN Panic("NumElements", FormatInt(c.NumElements))
    ELSE IF c.KeySize <= 0
      THEN Panic("KeySize", FormatInt(c.KeySize))
    ELSE IF c.ValueSize < 0
      THEN Panic("ValueSize", FormatInt(c.ValueSize))
    ELSE IF c.NumHotKeys < 0
      THEN Panic("NumHotKeys", FormatFloat(c.HotKeyFraction))
    ELSE IF c.HotKeyFraction < 0 \/ c.HotKeyFraction > FracDen
      THEN Panic("HotKeyFraction", FormatInt(c.NumHotKeys))
    ELSE [kind |-> "ok", cfg |-> c]

\* Build: the six checks in source order; the first that fails panics with
\* the field named in the message and the value the message prints.
Build(c) ==
    IF c.InitialSplits <= 0
      THEN Panic("InitialSplits", FormatInt(c.InitialSplits))
    ELSE IF c.NumElements <= 0
      THEN Panic("NumElements", FormatInt(c.NumElements))
    ELSE IF c.KeySize <= 0
      THEN Panic("KeySize", FormatInt(c.KeySize))
    ELSE IF c.ValueSize <= 0
      THEN Panic("ValueSize", FormatInt(c.ValueSize))
    ELSE IF c.NumHotKeys < 0
      THEN Panic("NumHotKeys", FormatFloat(c.HotKeyFraction))
    ELSE IF c.HotKeyFraction < 0 \/ c.HotKeyFraction > FracDen
      THEN Panic("HotKeyFraction", FormatInt(c.NumHotKeys))
    ELSE [kind |-> "ok", cfg |-> c]


\* A JSON object: a function from the keys it carries to their values. A
\* key is one of the six struct tags or a key no field of SourceConfig has.
UnknownKey == "unknown_key"

\* The values a document gives a key: one its field's bound rejects, and one
\* it accepts.
JSONBad(k) ==
    CASE k = "num_hot_keys"     -> -1
      [] k = "hot_key_fraction" -> FracDen + 1
      [] OTHER                  -> 0

JSONGood(k) == IF k = "hot_key_fraction" THEN FracDen ELSE MaxVal

\* The documents BuildFromJSON is given: those that differ from the complete
\* valid document in at most MaxDiff places (a known key left out, a value
\* its bound rejects, the unknown key added).
JSONDiff(P, Bad) ==
    Cardinality(KnownKeys \ P) + Cardinality(Bad)
        + (IF UnknownKey \in P THEN 1 ELSE 0)

JSONDocs ==
    UNION {{[k \in P |-> IF k \in Bad THEN JSONBad(k) ELSE JSONGood(k)] :
               Bad \in {B \in SUBSET (P \cap KnownKeys) : JSONDiff(P, B) <= MaxDiff}} :
           P \in SUBSET (KnownKeys \cup {UnknownKey})}

\* json.Decoder.Decode(&b.cfg) with DisallowUnknownFields: every key that
\* names a field stores its value in that field, the other fields keep what
\* they held; a key that names no field is the decode error.
Decode(c, d) ==
    [cfg |-> [f \in FieldSet |->
                 IF JSONKey(f) \in DOMAIN d THEN d[JSONKey(f)] ELSE c[f]],
     err |-> UnknownKey \in DOMAIN d]

\* BuildFromJSON without DisallowUnknownFields: an unknown key is skipped.
BuildFromJSONAllowUnknown(c, d) == [kind |-> "ok", cfg |-> Decode(c, d).cfg]

\* BuildFromJSON: decode into b.cfg, panic on a decode error, return b.cfg.
BuildFromJSON(c, d) ==
    IF Decode(c, d).err
      THEN [kind |-> "panic", field |-> "unmarshal", got |-> <<0, 1>>]
      ELSE [kind |-> "ok", cfg |-> Decode(c, d).cfg]

----------------------------------------------------------------------------
(* SpecBuilder: the calls on one SourceConfigBuilder.                      *)

RunIdle ==
    /\ splitIn = <<>>
    /\ splitOut = <<>>
    /\ config = DefaultSourceConfig
    /\ float64Of = <<>>
    /\ units = <<>>

BuilderInit ==
    /\ b = DefaultSourceConfig
    /\ res = [op |-> "DefaultSourceConfig", kind |-> "builder"]
    /\ RunIdle

UnchangedRun == UNCHANGED <<splitIn, splitOut, config, float64Of, units>>

\* Setters that also write through to the config a caller holds, as they
\* would had Build returned a pointer to the builder's cfg.
SetAliased(f, val) ==
    /\ b' = [b EXCEPT ![f] = val]
    /\ config' = [config EXCEPT ![f] = val]
    /\ res' = [op |-> "set", kind |-> "builder"]
    /\ UNCHANGED <<splitIn, splitOut, float64Of, units>>

\* The setters store val in one field and return the builder itself.
Set(f, val) ==
    /\ b' = [b EXCEPT ![f] = val]
    /\ res' = [op |-> "set", kind |-> "builder"]
    /\ UnchangedRun

NumElements == \E val \in IntVals : Set("NumElements", val)

InitialSplits == \E val \in IntVals : Set("InitialSplits", val)

KeySize == \E val \in IntVals : Set("KeySize", val)

ValueSize == \E val \in IntVals : Set("ValueSize", val)

NumHotKeys == \E val \in HotKeyVals : Set("NumHotKeys", val)

HotKeyFraction == \E val \in FracVals : Set("HotKeyFraction", val)

DoBuild ==
    /\ res' = [op |-> "Build", ret |-> Build(b)]
    /\ b' = b
    /\ UnchangedRun

DoBuildFromJSON ==
    \E d \in JSONDocs :
        /\ b' = Decode(b, d).cfg
        /\ res' = [op |-> "BuildFromJSON", doc |-> d, ret |-> BuildFromJSON(b, d)]
        /\ UnchangedRun

BuilderNext ==
    \/ NumElements
    \/ InitialSplits
    \/ KeySize
    \/ ValueSize
    \/ NumHotKeys
    \/ HotKeyFraction
    \/ DoBuild
    \/ DoBuildFromJSON

SpecBuilder == BuilderInit /\ [][BuilderNext]_vars

----------------------------------------------------------------------------
(* SpecHold: the setters and Build on one SourceConfigBuilder, with a      *)
(* caller that keeps a SourceConfig Build returned (config := b.Build())   *)
(* while the calls on the builder go on.                                   *)

\* The caller assigns the SourceConfig that Build has just returned: Build
\* returns b.cfg by value, so the caller holds a copy.
Keep ==
    /\ res.op = "Build"
    /\ res.ret.kind = "ok"
    /\ config' = res.ret.cfg
    /\ UNCHANGED <<b, res, splitIn, splitOut, float64Of, units>>

HoldNext ==
    \/ NumElements
    \/ InitialSplits
    \/ KeySize
    \/ ValueSize
    \/ NumHotKeys
    \/ HotKeyFraction
    \/ DoBuild
    \/ Keep

SpecHold == BuilderInit /\ [][HoldNext]_vars

----------------------------------------------------------------------------
(* The offset-range restriction and its tracker (package offsetrange, used *)
(* through sdf.LockRTracker, which makes each call atomic).                *)

Restriction(start, end) == [Start |-> start, End |-> end]

Size(rest) == rest.End - rest.Start

\* EvenSplits: num consecutive pieces [Start + i*size/num, Start + (i+1)*size/num),
\* the empty ones left out; num <= 1 returns the restriction itself.
EvenSplits(rest, num) ==
    IF num <= 1 THEN <<rest>>
    ELSE LET size == Size(rest)
             piece(i) == Restriction(rest.Start + ((i - 1) * size) \div num,
                                     rest.Start + (i * size) \div num)
         IN SelectSeq([i \in 1 .. num |-> piece(i)], LAMBDA r : Size(r) > 0)

\* NewTracker: nothing claimed yet.
NewTracker(rest) == [rest |-> rest, claimed |-> rest.Start - 1, stopped |-> FALSE]

\* TryClaim(pos): claims pos when the tracker is live, pos is past the last
\* claim and inside the restriction; any refusal stops the tracker.
TryClaim(t, pos) ==
    IF t.stopped THEN [t |-> t, ok |-> FALSE]
    ELSE IF pos < t.rest.Start \/ pos <= t.claimed \/ pos >= t.rest.End
      THEN [t |-> [t EXCEPT !.stopped = TRUE], ok |-> FALSE]
    ELSE [t |-> [t EXCEPT !.claimed = pos], ok |-> TRUE]

Max(x, y) == IF x >= y THEN x ELSE y

\* ceil(f / FracDen * n), for f, n >= 0.
CeilFrac(f, n) == (f * n + FracDen - 1) \div FracDen

\* TrySplit(fraction): cuts the unclaimed remainder at
\* claimed + max(ceil(fraction * (End - claimed)), 1); the primary keeps what
\* is before the cut, the residual is the rest. No residual when the tracker
\* has stopped or the cut is at the end.
TrySplit(t, f) ==
    LET splitPt == t.claimed + Max(CeilFrac(f, t.rest.End - t.claimed), 1)
    IN IF t.stopped \/ splitPt >= t.rest.End
         THEN [t |-> t, split |-> FALSE, residual |-> t.rest]
         ELSE [t |-> [t EXCEPT !.rest.End = splitPt], split |-> TRUE,
               residual |-> Restriction(splitPt, t.rest.End)]

----------------------------------------------------------------------------
(* sourceFn.                                                               *)

\* CreateInitialRestriction one element short.
CreateInitialRestrictionShort(c) == Restriction(0, c.NumElements - 1)

CreateInitialRestriction(c) == Restriction(0, c.NumElements)

\* SplitRestriction that does not split.
SplitRestrictionUnsplit(c, rest) == <<rest>>

SplitRestriction(c, rest) == EvenSplits(rest, c.InitialSplits)

\* RestrictionSize that reports the size of the whole source.
RestrictionSizeOfSource(c, rest) == c.NumElements

RestrictionSize(c, rest) == Size(rest)

CreateTracker(rest) == NewTracker(rest)

----------------------------------------------------------------------------
(* SpecSplit: SplitRestriction on the initial restriction of a config.    *)

\* The configs Build returns for the given field values.
Built(S) == {r.cfg : r \in {x \in {Build(c) : c \in S} : x.kind = "ok"}}

SplitConfigs ==
    Built({[DefaultSourceConfig EXCEPT !.NumElements = n, !.InitialSplits = k] :
              n \in 1 .. MaxSplitN, k \in 1 .. (MaxSplitN + 2)})

BuilderIdle ==
    /\ b = DefaultSourceConfig
    /\ res = [op |-> "DefaultSourceConfig", kind |-> "builder"]

SplitInit ==
    /\ BuilderIdle
    /\ \E c \in SplitConfigs :
           splitIn = [config |-> c, rest |-> CreateInitialRestriction(c)]
    /\ splitOut = <<>>
    /\ config = DefaultSourceConfig
    /\ float64Of = <<>>
    /\ units = <<>>

DoSplitRestriction ==
    /\ splitOut = <<>>
    /\ splitOut' = SplitRestriction(splitIn.config, splitIn.rest)
    /\ UNCHANGED <<b, res, splitIn, config, float64Of, units>>

SplitNext == DoSplitRestriction

SpecSplit == SplitInit /\ [][SplitNext]_vars

----------------------------------------------------------------------------
(* Spec: one run of the source over one SourceConfig element.              *)

RunConfigs ==
    Built({[DefaultSourceConfig EXCEPT !.NumElements = n, !.InitialSplits = k,
                                       !.NumHotKeys = h, !.HotKeyFraction = f] :
              n \in 1 .. MaxN, k \in 1 .. MaxUnits,
              h \in 0 .. MaxHotKeys, f \in 0 .. FracDen})

\* A unit of work: the tracker the runner created for its restriction and
\* the ProcessElement call on it (pc: where the call is; i: the loop index;
\* emitted: what it has passed to emit, in order; ret: what it returned).
\* ceded records that a dynamic split took a residual from the tracker.
NewUnit(rest) ==
    [rt |-> CreateTracker(rest), pc |-> "start", i |-> 0, emitted |-> <<>>,
     ret |-> "none", ceded |-> FALSE]

Init ==
    /\ BuilderIdle
    /\ splitIn = <<>>
    /\ splitOut = <<>>
    /\ config \in RunConfigs
    /\ float64Of = <<>>
    /\ units = [k \in 1 .. Len(SplitRestriction(config, CreateInitialRestriction(config))) |->
                   NewUnit(SplitRestriction(config, CreateInitialRestriction(config))[k])]

UnchangedRest == UNCHANGED <<b, res, splitIn, splitOut, config>>

\* generator.Seed(i); generator.Float64(): a function of the seed alone, in
\* [0, 1). Its value for a seed is fixed the first time the seed is used.
Float64(seed) ==
    IF seed \in DOMAIN float64Of THEN {float64Of[seed]} ELSE 0 .. (FracDen - 1)

\* A loop that starts at index 0 whatever the restriction, one that steps by
\* two, and one that takes a refused claim short of NumElements for a failure.
FirstIndexZero(rt) == 0

NextIndexSkip(i) == i + 2

LoopExitErr(u) ==
    [u EXCEPT !.pc = "done",
              !.ret = IF u.rt.rest.End < config.NumElements THEN "err" ELSE "nil"]

\* The loop's first index and its increment.
FirstIndex(rt) == rt.rest.Start

NextIndex(i) == i + 1

\* A loop that tries its claim again when TryClaim refuses.
LoopExitSpin(u) == [u EXCEPT !.pc = "claim"]

\* ProcessElement returns nil when TryClaim refuses.
LoopExit(u) == [u EXCEPT !.pc = "done", !.ret = "nil"]

\* A decision generator seeded with the index's offset in its restriction, and
\* a hot key seeded with the index itself.
DecisionSeedFromStart(u) == u.i - u.rt.rest.Start

HotKeySeedUnreduced(c, i) == i

\* generator.Seed(i): the seed of the hot/non-hot decision for the index unit
\* u has claimed.
DecisionSeed(u) == u.i

\* generator.Seed(i % int64(config.NumHotKeys)): the seed of a hot key.
HotKeySeed(c, i) == i % c.NumHotKeys

\* The loop body for claimed index i: the element it emits, or how it fails.
\* generator.Seed(i); Float64() < HotKeyFraction takes the hot path, which
\* reseeds with i % NumHotKeys (a run-time panic when NumHotKeys is 0) and
\* reads the key from generator; otherwise the key is read from fn.rng. The
\* value is read from fn.rng. A read of fn.rng may return an error.
IsHot(c, sample) == sample < c.HotKeyFraction

Body(c, i, sample, keyErr, valErr) ==
    IF IsHot(c, sample) /\ c.NumHotKeys = 0 THEN [out |-> "panic"]
    ELSE IF ~IsHot(c, sample) /\ keyErr THEN [out |-> "err"]
    ELSE IF valErr THEN [out |-> "err"]
    ELSE [out |-> "emit",
          elem |-> [idx |-> i,
                    key |-> IF IsHot(c, sample)
                              THEN [from |-> "generator", seed |-> HotKeySeed(c, i),
                                    size |-> c.KeySize]
                              ELSE [from |-> "rng", size |-> c.KeySize],
                    val |-> [from |-> "rng", size |-> c.ValueSize]]]

\* The loop condition rt.TryClaim(i), the first time with the loop's
\* initialisation i := rt.GetRestriction().Start before it (a split never
\* changes Start).
ClaimAt(n) ==
    /\ units[n].pc \in {"start", "claim"}
    /\ LET i == IF units[n].pc = "start" THEN FirstIndex(units[n].rt) ELSE units[n].i
           r == TryClaim(units[n].rt, i)
           u == [units[n] EXCEPT !.rt = r.t, !.i = i]
       IN units' = [units EXCEPT ![n] = IF r.ok THEN [u EXCEPT !.pc = "body"]
                                                 ELSE LoopExit(u)]
    /\ UNCHANGED float64Of
    /\ UnchangedRest

\* The loop body and i++.
GenerateAt(n) ==
    /\ units[n].pc = "body"
    /\ \E keyErr, valErr \in BOOLEAN, sample \in Float64(DecisionSeed(units[n])) :
        LET u == units[n]
            r == Body(config, u.i, sample, keyErr, valErr)
        IN /\ float64Of' = (DecisionSeed(u) :> sample) @@ float64Of
           /\ units' = [units EXCEPT ![n] =
                CASE r.out = "emit" ->
                        [u EXCEPT !.emitted = Append(u.emitted, r.elem),
                                  !.i = NextIndex(u.i), !.pc = "claim"]
                  [] OTHER -> [u EXCEPT !.pc = "done", !.ret = r.out]]
    /\ UnchangedRest

\* The runner splits a unit of work in progress at a fraction of its
\* remainder: the residual becomes a new unit of work.
DynamicSplitAt(n) ==
    /\ Len(units) < MaxUnits
    /\ units[n].pc \in {"start", "claim", "body"}
    /\ \E f \in 0 .. FracDen :
        LET r == TrySplit(units[n].rt, f)
        IN /\ r.split
           /\ units' = Append([units EXCEPT ![n].rt = r.t, ![n].ceded = TRUE],
                              NewUnit(r.residual))
    /\ UNCHANGED float64Of
    /\ UnchangedRest

Claim == \E n \in 1 .. Len(units) : ClaimAt(n)

Generate == \E n \in 1 .. Len(units) : GenerateAt(n)

DynamicSplit == \E n \in 1 .. Len(units) : DynamicSplitAt(n)

Next ==
    \/ Claim
    \/ Generate
    \/ DynamicSplit

Spec == Init /\ [][Next]_vars

----------------------------------------------------------------------------
(* SpecRerun: the run above followed by further executions over the same  *)
(* config: another run of the whole source whose InitialSplits differs,   *)
(* or the retry of a unit of work that failed. Units of every execution   *)
(* stay in units, so what two executions did with one index can be        *)
(* compared. generator is reseeded from the index in every execution, so  *)
(* float64Of carries over; fn.rng is reseeded from the clock by Setup.    *)

MaxRerunN == 2

MaxRerunUnits == 3

\* The first run is of a config with one initial split; dynamic splits divide
\* it further.
RerunConfigs ==
    {c \in RunConfigs : /\ c.NumElements = MaxRerunN
                         /\ c.InitialSplits = 1
                         /\ c.NumHotKeys \in {0, MaxHotKeys}}

RerunInit ==
    /\ BuilderIdle
    /\ splitIn = <<>>
    /\ splitOut = <<>>
    /\ config \in RerunConfigs
    /\ float64Of = <<>>
    /\ units = [k \in 1 .. Len(SplitRestriction(config, CreateInitialRestriction(config))) |->
                   NewUnit(SplitRestriction(config, CreateInitialRestriction(config))[k])]

\* The units of work of a run of config c: one tracker per restriction of
\* SplitRestriction(CreateInitialRestriction).
InitialUnits(c) ==
    [k \in 1 .. Len(SplitRestriction(c, CreateInitialRestriction(c))) |->
        NewUnit(SplitRestriction(c, CreateInitialRestriction(c))[k])]

AllReturned == \A n \in 1 .. Len(units) : units[n].pc = "done"

\* A further run of the source, with k initial splits.
Rerun ==
    /\ AllReturned
    /\ \E k \in 1 .. MaxUnits :
        LET us == InitialUnits([config EXCEPT !.InitialSplits = k])
        IN /\ Len(units) + Len(us) <= MaxRerunUnits
           /\ units' = units \o us
    /\ UNCHANGED float64Of
    /\ UnchangedRest

\* The runner retries a unit of work whose ProcessElement failed: a new
\* tracker over the restriction of the failed one.
RetryAt(n) ==
    /\ AllReturned
    /\ Len(units) < MaxRerunUnits
    /\ units[n].ret \in {"err", "panic"}
    /\ units' = Append(units, NewUnit(units[n].rt.rest))
    /\ UNCHANGED float64Of
    /\ UnchangedRest

Retry == \E n \in 1 .. Len(units) : RetryAt(n)

RerunNext ==
    \/ Claim
    \/ Generate
    \/ DynamicSplit
    \/ Rerun
    \/ Retry

SpecRerun == RerunInit /\ [][RerunNext]_vars

\* The first run alone, under fair scheduling: a ProcessElement call that can
\* take its next step (the loop condition, the loop body) eventually takes
\* it. Nothing is assumed of the runner: a dynamic split may happen or not.
SpecFair ==
    /\ RerunInit
    /\ [][Next]_vars
    /\ \A n \in 1 .. MaxUnits :
           /\ WF_vars(n <= Len(units) /\ ClaimAt(n))
           /\ WF_vars(n <= Len(units) /\ GenerateAt(n))

----------------------------------------------------------------------------
(* Properties of SpecSplit.                                                *)

SplitDone == splitOut # <<>>

\* C2: SplitRestriction on the initial restriction [0, N) of a config with
\* N >= 1 and S >= 1 returns an ordered sequence of sub-ranges that are
\* pairwise disjoint, cover [0, N) exactly (every index in exactly one
\* sub-range, no sub-range outside [0, N)), each of size >= 1, with sizes
\* that differ by at most 1.
C2_SplitCoverage ==
    SplitDone =>
        LET r == splitOut
            N == splitIn.config.NumElements
        IN /\ Len(r) >= 1
           /\ \A k \in 1 .. Len(r) :
                  /\ Size(r[k]) >= 1
                  /\ 0 <= r[k].Start
                  /\ r[k].End <= N
           /\ \A j, k \in 1 .. Len(r) :
                  /\ j < k => r[j].End <= r[k].Start
                  /\ Size(r[j]) - Size(r[k]) <= 1
           /\ \A x \in 0 .. (N - 1) :
                  Cardinality({k \in 1 .. Len(r) : r[k].Start <= x /\ x < r[k].End}) = 1

\* An uneven split: three or more sub-ranges, two of them of different sizes.
C2_Witness ==
    /\ SplitDone
    /\ Len(splitOut) >= 3
    /\ \E j, k \in 1 .. Len(splitOut) : Size(splitOut[j]) # Size(splitOut[k])

\* C3: when InitialSplits S is greater than NumElements N, SplitRestriction
\* on [0, N) returns exactly N sub-ranges, the k-th being [k-1, k): each of
\* size 1, none empty, none twice, no element dropped.
C3_SplitCapped ==
    (SplitDone /\ splitIn.config.InitialSplits > splitIn.config.NumElements) =>
        /\ Len(splitOut) = splitIn.config.NumElements
        /\ \A k \in 1 .. Len(splitOut) : splitOut[k] = Restriction(k - 1, k)

\* More splits asked for than there are elements, of which there are several.
C3_Witness ==
    /\ SplitDone
    /\ splitIn.config.InitialSplits > splitIn.config.NumElements
    /\ splitIn.config.NumElements >= 3

----------------------------------------------------------------------------
(* Properties of SpecBuilder.                                              *)

\* The fields of c that violate their documented bound.
Violated(c) ==
    {f \in {"NumElements", "InitialSplits", "KeySize", "ValueSize"} : c[f] < 1}
        \cup (IF c.NumHotKeys < 0 THEN {"NumHotKeys"} ELSE {})
        \cup (IF c.HotKeyFraction < 0 \/ c.HotKeyFraction > FracDen
                THEN {"HotKeyFraction"} ELSE {})

C7_PanicReportsOffendingValue ==
    (res.op = "Build" /\ Cardinality(Violated(b)) = 1) =>
        \A f \in Violated(b) :
            /\ res.ret.kind = "panic"
            /\ res.ret.field = f
            /\ res.ret.got = FormatField(b, f)

\* C8 (as claimed): BuildFromJSON validates like Build, so neither terminal
\* operation ever returns a SourceConfig that violates a bound.
C8_NoInvalidConfigReturned ==
    (res.op \in {"Build", "BuildFromJSON"} /\ res.ret.kind = "ok") =>
        Violated(res.ret.cfg) = {}

\* C9: BuildFromJSON on a document that carries exactly the six known keys
\* returns a SourceConfig whose fields equal the document's values, whatever
\* the builder held before; on a document that carries a key outside the six
\* it panics and returns no config.
C9_JSONRoundTrip ==
    res.op = "BuildFromJSON" =>
        /\ DOMAIN res.doc = KnownKeys =>
              /\ res.ret.kind = "ok"
              /\ \A f \in FieldSet : res.ret.cfg[f] = res.doc[JSONKey(f)]
        /\ (DOMAIN res.doc \ KnownKeys) # {} => res.ret.kind = "panic"

\* BuildFromJSON has returned the config of a six-key document, none of whose
\* values is the default the builder started with.
C9_Witness ==
    /\ res.op = "BuildFromJSON"
    /\ DOMAIN res.doc = KnownKeys
    /\ res.ret.kind = "ok"
    /\ \A f \in FieldSet : res.ret.cfg[f] # DefaultSourceConfig[f]

----------------------------------------------------------------------------
(* Properties of Spec.                                                     *)

UnitIds == 1 .. Len(units)

\* ProcessElement of unit n has returned nil.
Finished(n) == units[n].pc = "done" /\ units[n].ret = "nil"

\* The emissions of index x, over all units.
Emissions(x) ==
    {<<n, k>> \in UnitIds \X (1 .. MaxN) :
        k <= Len(units[n].emitted) /\ units[n].emitted[k].idx = x}

\* C1: once every unit of work (initial or residual of a dynamic split) has
\* finished without a generation error, each index in [0, N) has been emitted
\* exactly once in total, and nothing outside [0, N) has been emitted.
C1_ExactlyOnce ==
    (\A n \in UnitIds : Finished(n)) =>
        /\ \A x \in 0 .. (config.NumElements - 1) : Cardinality(Emissions(x)) = 1
        /\ \A n \in UnitIds : \A k \in 1 .. Len(units[n].emitted) :
               units[n].emitted[k].idx \in 0 .. (config.NumElements - 1)

\* Every unit has finished, one of them after a dynamic split took its
\* remainder, and both it and its residual emitted something.
C1_Witness ==
    /\ \A n \in UnitIds : Finished(n)
    /\ config.NumElements = MaxN
    /\ \E n \in UnitIds : units[n].ceded /\ Len(units[n].emitted) >= 1
    /\ \A n \in UnitIds : Len(units[n].emitted) >= 1

\* C4: within one unit of work the emitted indices are consecutive, strictly
\* increasing and begin at the Start of the tracker's restriction; an element
\* is emitted only for the index TryClaim has just accepted; and once
\* TryClaim has refused, the unit claims and emits nothing more.
C4_EmitsClaimedInOrder ==
    /\ [](\A n \in UnitIds : \A k \in 1 .. Len(units[n].emitted) :
             units[n].emitted[k].idx = units[n].rt.rest.Start + k - 1)
    /\ [][\A n \in UnitIds :
             /\ units'[n].emitted # units[n].emitted =>
                   /\ units[n].pc = "body"
                   /\ units'[n].emitted =
                          Append(units[n].emitted, units'[n].emitted[Len(units'[n].emitted)])
                   /\ units'[n].emitted[Len(units'[n].emitted)].idx = units[n].rt.claimed
                   /\ units'[n].rt = units[n].rt
             /\ units[n].pc = "done" => units'[n] = units[n]]_vars

\* A unit has emitted three indices and returned after a refused claim.
C4_Witness ==
    \E n \in UnitIds : Finished(n) /\ Len(units[n].emitted) >= 3

\* A dynamic split has taken everything unit n had not claimed, and the loop
\* of n is about to call TryClaim.
CededAll(n) ==
    /\ units[n].ceded
    /\ units[n].pc \in {"start", "claim"}
    /\ units[n].rt.rest.End = units[n].rt.claimed + 1

\* C5: when a dynamic split has taken the unclaimed remainder of a tracker
\* whose loop is in progress, the loop's next TryClaim is refused and
\* ProcessElement returns nil, having emitted exactly the indices it claimed
\* before the split; a refused claim never makes ProcessElement return an
\* error.
C5_SplitEndsNormally ==
    [][\A n \in UnitIds :
          /\ (CededAll(n) /\ units'[n] # units[n]) =>
                /\ units'[n].pc = "done"
                /\ units'[n].ret = "nil"
                /\ units'[n].emitted = units[n].emitted
                /\ Len(units[n].emitted) = units[n].rt.claimed + 1 - units[n].rt.rest.Start
                /\ \A k \in 1 .. Len(units[n].emitted) :
                       units[n].emitted[k].idx = units[n].rt.rest.Start + k - 1
          /\ (units[n].pc \in {"start", "claim"} /\ units'[n].pc = "done") =>
                units'[n].ret = "nil"]_vars

\* A unit that had claimed and emitted an index lost its remainder to a
\* dynamic split and has returned nil short of the end of its restriction.
C5_Witness ==
    \E n \in UnitIds :
        /\ units[n].ceded
        /\ Finished(n)
        /\ Len(units[n].emitted) >= 1
        /\ units[n].rt.rest.End < config.NumElements
        /\ Len(units[n].emitted) = Size(units[n].rt.rest)

\* C10 (as claimed): with NumHotKeys = 0 hot-key mode is off whatever
\* HotKeyFraction is: no claimed index takes the hot path and none makes
\* ProcessElement fail on it.
C10_NoHotPathWithoutHotKeys ==
    config.NumHotKeys = 0 =>
        \A n \in UnitIds :
            /\ units[n].ret # "panic"
            /\ \A k \in 1 .. Len(units[n].emitted) :
                   units[n].emitted[k].key.from = "rng"

----------------------------------------------------------------------------
(* Properties of SpecRerun.                                                *)

\* The element emitted k-th by unit n.
Elem(n, k) == units[n].emitted[k]

EmittedAt == {<<n, k>> \in UnitIds \X (1 .. MaxN) : k <= Len(units[n].emitted)}

Hot(e) == e.key.from = "generator"

\* C11: whether index i is hot depends on i and HotKeyFraction alone: any two
\* emissions of one index, by whichever units of whichever executions (other
\* initial splits, other dynamic splits, a retry, other fn.rng seeds, other
\* indices processed before), are both hot or both non-hot; and an index on
\* which a unit panicked in the hot path is emitted as non-hot by none.
C11_HotIsFunctionOfIndex ==
    /\ \A p, q \in EmittedAt :
           Elem(p[1], p[2]).idx = Elem(q[1], q[2]).idx =>
               (Hot(Elem(p[1], p[2])) <=> Hot(Elem(q[1], q[2])))
    /\ \A n \in UnitIds : \A p \in EmittedAt :
           (units[n].ret = "panic" /\ Elem(p[1], p[2]).idx = units[n].i) =>
               Hot(Elem(p[1], p[2]))

\* Two units with different restrictions have both emitted an index that is
\* not the first of the one and is the first of the other, one index being
\* hot and another not.
C11_Witness ==
    /\ \E p, q \in EmittedAt :
           /\ p[1] # q[1]
           /\ Elem(p[1], p[2]).idx = Elem(q[1], q[2]).idx
           /\ p[2] > 1
           /\ q[2] = 1
    /\ \E p, q \in EmittedAt : Hot(Elem(p[1], p[2])) /\ ~Hot(Elem(q[1], q[2]))

\* The hot keys emitted so far, over all units of all executions.
HotKeys == {Elem(p[1], p[2]).key : p \in {q \in EmittedAt : Hot(Elem(q[1], q[2]))}}

\* C12: with NumHotKeys = K > 0 the key of a hot index i is read from the
\* generator reseeded with i mod K, never from fn.rng, and has KeySize bytes:
\* any two hot emissions whose indices are congruent mod K, in whichever
\* executions, carry the same key, and at most K distinct hot keys exist.
C12_HotKeyByResidue ==
    config.NumHotKeys > 0 =>
        /\ \A p \in EmittedAt :
               Hot(Elem(p[1], p[2])) =>
                   Elem(p[1], p[2]).key =
                       [from |-> "generator",
                        seed |-> Elem(p[1], p[2]).idx % config.NumHotKeys,
                        size |-> config.KeySize]
        /\ \A p, q \in EmittedAt :
               (/\ Hot(Elem(p[1], p[2]))
                /\ Hot(Elem(q[1], q[2]))
                /\ Elem(p[1], p[2]).idx % config.NumHotKeys
                      = Elem(q[1], q[2]).idx % config.NumHotKeys) =>
                   Elem(p[1], p[2]).key = Elem(q[1], q[2]).key
        /\ Cardinality(HotKeys) <= config.NumHotKeys

\* Two different indices, congruent mod NumHotKeys, were emitted hot, and one
\* of them was emitted hot by two units.
C12_Witness ==
    /\ config.NumHotKeys > 0
    /\ \E p, q \in EmittedAt :
           /\ Hot(Elem(p[1], p[2]))
           /\ Hot(Elem(q[1], q[2]))
           /\ Elem(p[1], p[2]).idx # Elem(q[1], q[2]).idx
           /\ Elem(p[1], p[2]).idx % config.NumHotKeys
                 = Elem(q[1], q[2]).idx % config.NumHotKeys
    /\ \E p, q \in EmittedAt :
           /\ p[1] # q[1]
           /\ Hot(Elem(p[1], p[2]))
           /\ Hot(Elem(q[1], q[2]))
           /\ Elem(p[1], p[2]).idx = Elem(q[1], q[2]).idx

----------------------------------------------------------------------------
(* Further properties of Spec.                                             *)

\* The indices the tracker of unit n records as claimed, and those the unit
\* has emitted.
ClaimedBy(n) == units[n].rt.rest.Start .. units[n].rt.claimed

EmittedBy(n) == {units[n].emitted[k].idx : k \in 1 .. Len(units[n].emitted)}

\* C13 (as claimed): a claim either completes with the emission of its index
\* or is not attempted: in every state in which ProcessElement is not inside
\* the loop body, the state after it failed on filling a key or value buffer
\* included, every index the tracker records as claimed has been emitted.
\* (A unit that ended in the run-time panic of the hot path is left out.)
C13_ClaimedIsEmitted ==
    \A n \in UnitIds :
        (units[n].pc # "body" /\ units[n].ret # "panic") =>
            ClaimedBy(n) \subseteq EmittedBy(n)

\* RestrictionSize of the restriction the tracker of unit n holds.
SizeOf(n) == RestrictionSize(config, units[n].rt.rest)

\* The config of the run, those that differ from it in NumElements, and the
\* default one.
OtherConfigs ==
    {[config EXCEPT !.NumElements = m] : m \in 1 .. MaxN} \cup {DefaultSourceConfig}

\* C14 (as claimed): RestrictionSize of a range is End - Start whatever the
\* config, and within one tracker the size reported for the tracker's
\* restriction becomes smaller with every claim that succeeds.
C14_SizeDecreasesOnClaim ==
    /\ [](\A n \in UnitIds : \A c \in OtherConfigs :
             RestrictionSize(c, units[n].rt.rest)
                 = units[n].rt.rest.End - units[n].rt.rest.Start)
    /\ [][\A n \in UnitIds :
             units'[n].rt.claimed > units[n].rt.claimed => SizeOf(n)' < SizeOf(n)]_vars

\* C14 (amended): RestrictionSize of a range is End - Start whatever the
\* config, and within one tracker the size reported for the tracker's
\* restriction never increases: a claim that succeeds leaves it as it was,
\* and only a dynamic split that takes a residual makes it smaller.
C14_SizeNeverIncreases ==
    /\ [](\A n \in UnitIds : \A c \in OtherConfigs :
             RestrictionSize(c, units[n].rt.rest)
                 = units[n].rt.rest.End - units[n].rt.rest.Start)
    /\ [][\A n \in UnitIds :
             /\ SizeOf(n)' <= SizeOf(n)
             /\ units'[n].rt.claimed > units[n].rt.claimed => SizeOf(n)' = SizeOf(n)
             /\ SizeOf(n)' < SizeOf(n) =>
                    /\ units'[n].ceded
                    /\ Len(units') = Len(units) + 1
                    /\ SizeOf(n)' + Size(units'[Len(units')].rt.rest) = SizeOf(n)]_vars

\* A tracker that accepted two claims and then lost a residual to a dynamic
\* split: its restriction is smaller than the two claims left it.
C14_Witness ==
    \E n \in UnitIds :
        /\ units[n].ceded
        /\ units[n].rt.claimed >= units[n].rt.rest.Start + 1
        /\ units[n].rt.rest.Start = 0
        /\ SizeOf(n) < config.NumElements
        /\ config.InitialSplits = 1

\* The indices of the restriction the tracker of unit n holds.
RangeOf(n) == units[n].rt.rest.Start .. (units[n].rt.rest.End - 1)

\* C16: a claimed index is emitted before the next claim is attempted: in
\* every state at most one index of a unit is claimed and not yet emitted, it
\* is the one claimed last, and in a unit that has not failed it exists only
\* while the loop body runs; and the restriction of any other unit, the
\* residual a dynamic split handed off included, contains no index the unit
\* has claimed or emitted.
C16_OneClaimInFlight ==
    \A n \in UnitIds :
        /\ Cardinality(ClaimedBy(n) \ EmittedBy(n)) <= 1
        /\ (ClaimedBy(n) \ EmittedBy(n)) \subseteq {units[n].rt.claimed}
        /\ EmittedBy(n) \subseteq ClaimedBy(n)
        /\ (units[n].ret \notin {"err", "panic"} /\ units[n].pc # "body") =>
               ClaimedBy(n) = EmittedBy(n)
        /\ \A m \in UnitIds \ {n} :
               RangeOf(m) \cap (ClaimedBy(n) \cup EmittedBy(n)) = {}

\* A unit that has emitted an index and claimed the next lost a residual to a
\* dynamic split while its loop body was running.
C16_Witness ==
    \E n, m \in UnitIds :
        /\ units[n].pc = "body"
        /\ units[n].ceded
        /\ Len(units[n].emitted) >= 1
        /\ units[n].rt.claimed \notin EmittedBy(n)
        /\ units[m].rt.rest.Start = units[n].rt.rest.End
        /\ units[m].rt.rest.Start = units[n].rt.claimed + 1

\* C17: a unit of work over [s, e) that lost nothing to a dynamic split and
\* returned nil has claimed s, ..., e-1, emitted exactly these e - s indices
\* in this order, and returned on the refusal of its claim on e; so the
\* unsplit initial restriction of a config yields NumElements elements.
C17_UnsplitUnitEmitsItsRange ==
    \A n \in UnitIds :
        (Finished(n) /\ ~units[n].ceded) =>
            /\ Len(units[n].emitted) = units[n].rt.rest.End - units[n].rt.rest.Start
            /\ \A k \in 1 .. Len(units[n].emitted) :
                   units[n].emitted[k].idx = units[n].rt.rest.Start + k - 1
            /\ units[n].rt.claimed = units[n].rt.rest.End - 1
            /\ units[n].i = units[n].rt.rest.End
            /\ ~TryClaim(units[n].rt, units[n].i).ok
            /\ (Len(units) = 1 /\ config.InitialSplits = 1) =>
                   /\ units[n].rt.rest = Restriction(0, config.NumElements)
                   /\ Len(units[n].emitted) = config.NumElements

\* The only unit of a run, over the whole of a source of MaxN elements, has
\* returned nil.
C17_Witness ==
    /\ Len(units) = 1
    /\ Finished(1)
    /\ ~units[1].ceded
    /\ config.NumElements = MaxN
    /\ Len(units[1].emitted) = MaxN

\* C18: under fair scheduling of the claim loop every unit of work, initial
\* or residual of a dynamic split, eventually returns: ProcessElement sees
\* TryClaim refuse and returns nil, or fails on generating an element; the
\* loop does not run forever, whatever dynamic splits happen meanwhile.
C18_EveryUnitReturns ==
    \A n \in 1 .. MaxUnits :
        (n <= Len(units)) ~>
            (/\ n <= Len(units)
             /\ units[n].pc = "done"
             /\ units[n].ret \in {"nil", "err", "panic"}
             /\ units[n].ret = "nil" => ~TryClaim(units[n].rt, units[n].i).ok)

\* Every unit has returned: one that emitted an index and lost a residual to
\* a dynamic split returned nil, and one failed on generating an element.
C18_Witness ==
    /\ AllReturned
    /\ Len(units) = MaxUnits
    /\ \E n \in UnitIds :
           /\ units[n].ceded
           /\ units[n].ret = "nil"
           /\ Len(units[n].emitted) >= 1
    /\ \E n \in UnitIds : units[n].ret = "err"

----------------------------------------------------------------------------
(* Further properties of SpecBuilder.                                      *)

\* C15 (as claimed): a setter makes no mutation visible to other holders. A
\* reference to the builder kept from before the call is the pointer the
\* setter is called on, so what its holder observes after the call is the
\* builder's fields after the call: they equal the fields before the call,
\* and Build through the kept reference yields what it would have before.
C15_SetterInvisibleToHolders ==
    [][res'.op = "set" => (b' = b /\ Build(b') = Build(b))]_vars

----------------------------------------------------------------------------
(* Properties of SpecHold.                                                 *)

\* C19: a SourceConfig returned by Build is a value detached from its
\* builder: the config a caller holds changes only when the caller assigns
\* what Build has just returned, never by a setter called on the builder
\* afterwards nor by another Build; and Build, whether it returns or panics,
\* leaves the six fields of the builder as they were.
C19_BuiltConfigDetached ==
    [][/\ config' # config =>
             /\ b' = b
             /\ res' = res
             /\ res.op = "Build"
             /\ res.ret.kind = "ok"
             /\ config' = res.ret.cfg
             /\ config' = b
       /\ res'.op = "Build" => b' = b]_vars

\* The caller holds a config that is not the default one, setters called
\* since have made the builder differ from it in every field, and a further
\* Build has panicked.
C19_Witness ==
    /\ config # DefaultSourceConfig
    /\ Violated(config) = {}
    /\ \A f \in FieldSet : b[f] # config[f]
    /\ res.op = "Build"
    /\ res.ret.kind = "panic"

====
